---------------------------- MODULE Spec2Model ----------------------------
(***************************************************************************)
(* A model of the request execution layer of cloudydeno/aws-api:           *)
(* BaseApiFactory (configuration, signing fetcher), the protocol clients   *)
(* (Query, JSON, XML) with their shared performRequest, the error          *)
(* classifier handleErrorResponse and the endpoint rule getRootDomain.     *)
(*                                                                         *)
(* Strings are TLA+ strings: TLC evaluates Len, SubSeq and \o on them, so  *)
(* startsWith, includes, slice and split are modelled by what they do.     *)
(* An absent optional string (undefined / null) is the value `undefined`;  *)
(* an absent optional number or object is the empty sequence << >> and a   *)
(* present one the one-element sequence <<v>>.                             *)
(***************************************************************************)
EXTENDS Naturals, Sequences, FiniteSets, TLC

VARIABLES
  factory,   \* the BaseApiFactory: its private fields, or the error its constructor threw
  client,    \* the ServiceClient built by buildServiceClient, or the error it threw
  calls,     \* calls[c]: one logical call (a performRequest invocation) and where it stands
  provider,  \* the credentials provider as a counting stub: invocations made and outstanding
  ensure,    \* the activation of ensureCredentialsAvailable() and where it stands
  aborted    \* the AbortSignals the caller has aborted

vars == <<factory, client, calls, provider, ensure, aborted>>

-----------------------------------------------------------------------------
(* JavaScript values and string functions                                  *)

undefined == "<undefined>"

\* a ?? b for strings (b already evaluated: use IF where b throws)
Coalesce(a, b) == IF a = undefined THEN b ELSE a

\* s.slice(n), n >= 0
Slice(s, n) == IF n >= Len(s) THEN "" ELSE SubSeq(s, n + 1, Len(s))

\* s.slice(0, n), n >= 0
Prefix(s, n) == IF n >= Len(s) THEN s ELSE SubSeq(s, 1, n)

CharAt(s, i) == SubSeq(s, i, i)

StartsWith(s, p) == Len(s) >= Len(p) /\ SubSeq(s, 1, Len(p)) = p

EndsWith(s, p) == Len(s) >= Len(p) /\ SubSeq(s, Len(s) - Len(p) + 1, Len(s)) = p

\* the 1-based positions where p occurs in s
Occurrences(s, p) ==
  { i \in 1..(Len(s) + 1) : i + Len(p) - 1 <= Len(s) /\ SubSeq(s, i, i + Len(p) - 1) = p }

Includes(s, p) == Occurrences(s, p) # {}

Min(S) == CHOOSE x \in S : \A y \in S : x <= y

Max(S) == CHOOSE x \in S : \A y \in S : x >= y

\* s.split(/[?/]/)[0]: the text before the first '?' or '/'
SplitFirst(s) ==
  LET cut == Occurrences(s, "/") \cup Occurrences(s, "?")
  IN  IF cut = {} THEN s ELSE Prefix(s, Min(cut) - 1)

Digit(d) == CharAt("0123456789", d + 1)

\* n.toString() for a natural number
RECURSIVE NumToString(_)
NumToString(n) == IF n < 10 THEN Digit(n) ELSE NumToString(n \div 10) \o Digit(n % 10)

\* an optional number or object: << >> or <<v>>
IsNullish(o) == o = << >>

-----------------------------------------------------------------------------
(* Errors: what a throw carries.  An AwsServiceError also carries the      *)
(* normalized ServiceError fields and the request id.                      *)

Error(message) ==
  [name |-> "Error", message |-> message,
   Code |-> undefined, Type |-> undefined, RequestId |-> undefined]

NativeError(name, message) == [Error(message) EXCEPT !.name = name]

NoError == Error("")

\* common.ts: new AwsServiceError(response, error, requestId)
AwsServiceError(error, requestId) ==
  [name |-> "AwsServiceError", message |-> error.Message,
   Code |-> error.Code, Type |-> error.Type, RequestId |-> requestId]

throwMissingRegion ==
  Error("No region provided, try setting AWS_REGION or passing a region when constructing your client")

-----------------------------------------------------------------------------
(* BaseApiFactory                                                          *)

\* the trivial provider wrapped around a fixed Credentials value:
\* { getCredentials: () => Promise.resolve(credentials) }
\* mutant: the wrapped credentials are looked up again each time, which may fail
FixedProvider_flaky(credentials) ==
  [outcomes |-> {[ok |-> TRUE, credentials |-> credentials],
                 [ok |-> FALSE, credentials |-> [awsAccessKeyId |-> "", region |-> undefined]]}]

FixedProvider(credentials) == [outcomes |-> {[ok |-> TRUE, credentials |-> credentials]}]

NoProvider == [outcomes |-> {}]

\* the opts bag of the constructor
FactoryOpts(credentials, credentialProvider, region, fixedEndpoint, baseDomain) ==
  [credentials |-> credentials, credentialProvider |-> credentialProvider, region |-> region,
   fixedEndpoint |-> fixedEndpoint, baseDomain |-> baseDomain]

\* `opts` keeps the constructor's argument beside the private fields set from it
NoFactory ==
  [state |-> "none", error |-> NoError, credentials |-> NoProvider,
   region |-> undefined, fixedEndpoint |-> undefined, baseDomain |-> undefined,
   opts |-> FactoryOpts(<< >>, << >>, undefined, undefined, undefined)]

\* Deno.env.get("AWS_REGION"): the value, or the error the read throws
EnvThrows(env) == env.error # undefined

\* new BaseApiFactory(opts), in the environment env
BaseApiFactory(opts, env) ==
  IF IsNullish(opts.credentials) /\ IsNullish(opts.credentialProvider)
  THEN [NoFactory EXCEPT
          !.state = "threw", !.opts = opts,
          !.error = Error("No credentials or credential source provided -- you must provide one to use this class directly")]
  ELSE
  LET credentials ==
        IF ~IsNullish(opts.credentials) THEN FixedProvider(opts.credentials[1])
        ELSE opts.credentialProvider[1]
      readsEnv == opts.region = undefined
      region ==
        IF ~readsEnv THEN opts.region
        ELSE IF EnvThrows(env) THEN undefined
        ELSE env.AWS_REGION
  IN
  IF readsEnv /\ EnvThrows(env) /\ env.error # "PermissionDenied"
  THEN [NoFactory EXCEPT !.state = "threw", !.opts = opts, !.error = NativeError(env.error, "env")]
  ELSE IF opts.fixedEndpoint # undefined /\ ~Includes(opts.fixedEndpoint, "://")
  THEN [NoFactory EXCEPT
          !.state = "threw", !.opts = opts,
          !.error = Error("If provided, fixedEndpoint must be a full URL including https:// or http://")]
  ELSE
    [state |-> "built", error |-> NoError, credentials |-> credentials,
     region |-> region,
     fixedEndpoint |-> opts.fixedEndpoint,
     baseDomain |-> IF opts.fixedEndpoint # undefined THEN undefined ELSE opts.baseDomain,
     opts |-> opts]

-----------------------------------------------------------------------------
(* Endpoint rules                                                          *)

dualStackEc2Regions ==
  {"us-east-1", "us-east-2", "us-west-2", "eu-west-1", "ap-south-1", "sa-east-1"}

\* mutant: the isolated partition tested by 'us-iso', which 'us-isob-...' starts with too
getRootDomain_isoPrefix(serviceId, regionArg) ==
  LET region == Coalesce(regionArg, "us-east-1")
  IN  IF serviceId = "EC2" /\ region \in dualStackEc2Regions THEN "aws"
      ELSE IF StartsWith(region, "cn-") THEN "amazonaws.com.cn"
      ELSE IF StartsWith(region, "us-iso") THEN "c2s.ic.gov"
      ELSE IF StartsWith(region, "us-isob-") THEN "sc2s.sgov.gov"
      ELSE "amazonaws.com"

\* getRootDomain(serviceId, region = 'us-east-1')
getRootDomain(serviceId, regionArg) ==
  LET region == Coalesce(regionArg, "us-east-1")
  IN  IF serviceId = "EC2" /\ region \in dualStackEc2Regions THEN "aws"
      ELSE IF StartsWith(region, "cn-") THEN "amazonaws.com.cn"
      ELSE IF StartsWith(region, "us-iso-") THEN "c2s.ic.gov"
      ELSE IF StartsWith(region, "us-isob-") THEN "sc2s.sgov.gov"
      ELSE "amazonaws.com"

\* apiMetadata.globalEndpoint?.replace(/\.amazonaws\.com$/, '')
globalEndpointPrefix(apiMetadata) ==
  IF apiMetadata.globalEndpoint = undefined THEN undefined
  ELSE IF EndsWith(apiMetadata.globalEndpoint, ".amazonaws.com")
  THEN Prefix(apiMetadata.globalEndpoint,
              Len(apiMetadata.globalEndpoint) - Len(".amazonaws.com"))
  ELSE apiMetadata.globalEndpoint

\* const endpointPrefix = serviceId === 'S3' ? 's3.dualstack' : apiMetadata.endpointPrefix
endpointPrefix(apiMetadata) ==
  IF apiMetadata.serviceId = "S3" THEN "s3.dualstack" ELSE apiMetadata.endpointPrefix

\* `${a || b}` for strings: a when it is neither undefined nor empty
OrElse(a, b) == IF a = undefined \/ a = "" THEN b ELSE a

\* https://{hostPrefix ?? ''}{baseDomain === 'aws' ? 'api.' : ''}{global || prefix.region}.{baseDomain}
AssembleEndpoint(apiMetadata, hostPrefix, baseDomain, region) ==
  "https://" \o Coalesce(hostPrefix, "")
    \o (IF baseDomain = "aws" THEN "api." ELSE "")
    \o OrElse(globalEndpointPrefix(apiMetadata), endpointPrefix(apiMetadata) \o "." \o region)
    \o "." \o baseDomain

-----------------------------------------------------------------------------
(* new URL(path, base).toString(), for the characters the model uses       *)
(* (letters, digits, '-', '.', '/', '?', '=', ':'): the path replaces the  *)
(* base's path when it starts with '/', names another host when it starts  *)
(* with '//', and dot segments are removed.                                *)

\* s.split('/')
RECURSIVE SplitSlash(_)
SplitSlash(s) ==
  LET occ == Occurrences(s, "/")
  IN  IF occ = {} THEN <<s>>
      ELSE <<Prefix(s, Min(occ) - 1)>> \o SplitSlash(Slice(s, Min(occ)))

RECURSIVE JoinPath(_)
JoinPath(segs) == IF segs = << >> THEN "" ELSE "/" \o Head(segs) \o JoinPath(Tail(segs))

DropLast(segs) == IF segs = << >> THEN segs ELSE SubSeq(segs, 1, Len(segs) - 1)

\* the URL parser's path state: '.' is skipped, '..' drops the segment before it
RECURSIVE ShortenSegments(_, _)
ShortenSegments(segs, out) ==
  IF segs = << >> THEN out
  ELSE LET seg == Head(segs)
           last == Len(segs) = 1
       IN  IF seg = ".." THEN ShortenSegments(Tail(segs), IF last THEN DropLast(out) \o <<"">> ELSE DropLast(out))
           ELSE IF seg = "." THEN ShortenSegments(Tail(segs), IF last THEN out \o <<"">> ELSE out)
           ELSE ShortenSegments(Tail(segs), out \o <<seg>>)

\* an absolute path with its query: the path's dot segments removed, the query kept
NormalizePath(pathAndQuery) ==
  LET q == Occurrences(pathAndQuery, "?")
      path == IF q = {} THEN pathAndQuery ELSE Prefix(pathAndQuery, Min(q) - 1)
      query == IF q = {} THEN "" ELSE Slice(pathAndQuery, Min(q) - 1)
  IN  JoinPath(ShortenSegments(SplitSlash(Slice(path, 1)), << >>)) \o query

UrlScheme(url) == Prefix(url, Min(Occurrences(url, "://")) - 1)

\* what follows scheme://
UrlRest(url) == Slice(url, Min(Occurrences(url, "://")) + 2)

\* scheme://host[:port]
UrlOrigin(url) == UrlScheme(url) \o "://" \o SplitFirst(UrlRest(url))

\* the path and query of an absolute URL ('/' when it has none)
UrlPathAndQuery(url) ==
  LET rest == Slice(UrlRest(url), Len(SplitFirst(UrlRest(url))))
  IN  IF rest = "" THEN "/"
      ELSE IF StartsWith(rest, "?") THEN "/" \o rest
      ELSE NormalizePath(rest)

UrlPath(url) ==
  LET pq == UrlPathAndQuery(url)
      q == Occurrences(pq, "?")
  IN  IF q = {} THEN pq ELSE Prefix(pq, Min(q) - 1)

\* the base's path up to and including its last '/'
UrlDirectory(url) == Prefix(UrlPath(url), Max(Occurrences(UrlPath(url), "/")))

NewURL(path, base) ==
  IF path = "" THEN UrlOrigin(base) \o UrlPathAndQuery(base)
  ELSE IF StartsWith(path, "//")
  THEN LET other == UrlScheme(base) \o ":" \o path
       IN  UrlOrigin(other) \o UrlPathAndQuery(other)
  ELSE IF StartsWith(path, "/") THEN UrlOrigin(base) \o NormalizePath(path)
  ELSE IF StartsWith(path, "?") THEN UrlOrigin(base) \o UrlPath(base) \o path
  ELSE UrlOrigin(base) \o NormalizePath(UrlDirectory(base) \o path)

-----------------------------------------------------------------------------
(* buildServiceClient and wrapServiceClient                                *)

NoMetadata ==
  [serviceId |-> "", signatureVersion |-> "", protocol |-> "", endpointPrefix |-> "",
   globalEndpoint |-> undefined, signingName |-> undefined, apiVersion |-> "",
   targetPrefix |-> undefined, jsonVersion |-> undefined]

NoClient ==
  [state |-> "none", error |-> NoError, kind |-> "none", apiMetadata |-> NoMetadata,
   serviceVersion |-> "", serviceTarget |-> "", jsonVersion |-> ""]

\* the protocol client bound to the signing fetcher of apiMetadata
wrapServiceClient(apiMetadata) ==
  LET built == [NoClient EXCEPT !.state = "built", !.apiMetadata = apiMetadata]
  IN  CASE apiMetadata.protocol \in {"query", "ec2"} ->
             [built EXCEPT !.kind = "QueryServiceClient",
                           !.serviceVersion = apiMetadata.apiVersion]
        [] apiMetadata.protocol \in {"json", "rest-json"} ->
             [built EXCEPT !.kind = "JsonServiceClient",
                           !.serviceTarget = Coalesce(apiMetadata.targetPrefix, "TODO"),
                           !.jsonVersion = Coalesce(apiMetadata.jsonVersion, "1.0")]
        [] apiMetadata.protocol = "rest-xml" ->
             [built EXCEPT !.kind = "XmlServiceClient"]
        [] OTHER ->
             [NoClient EXCEPT !.state = "threw",
                              !.error = Error("TODO: protocol " \o apiMetadata.protocol)]

\* mutant: the signature version is not looked at when the client is built
buildServiceClient_anyVersion(apiMetadata) == wrapServiceClient(apiMetadata)

buildServiceClient(apiMetadata) ==
  IF apiMetadata.signatureVersion = "v2"
  THEN [NoClient EXCEPT !.state = "threw",
                        !.error = Error("TODO: signature version " \o apiMetadata.signatureVersion)]
  ELSE wrapServiceClient(apiMetadata)

-----------------------------------------------------------------------------
(* Request bodies.  config.body is one of: absent, a Uint8Array (of the    *)
(* bytes of `text`), a string (`text`), a plain object or a                *)
(* URLSearchParams (both with `entries`, a sequence of <<key, value>>).    *)

NoBody == [kind |-> "none", text |-> "", entries |-> << >>]

\* new TextEncoder().encode(text), or a Uint8Array passed through; absent otherwise
NoBytes == [present |-> FALSE, text |-> ""]

Bytes(text) == [present |-> TRUE, text |-> text]

\* if (config.body): every object is truthy, a string unless it is empty
Truthy(body) == body.kind # "none" /\ ~(body.kind = "string" /\ body.text = "")

RECURSIVE JoinEntries(_, _, _, _)
JoinEntries(entries, open, mid, sep) ==
  IF entries = << >> THEN ""
  ELSE open \o Head(entries)[1] \o mid \o Head(entries)[2]
         \o (IF Len(entries) > 1 THEN sep ELSE "")
         \o JoinEntries(Tail(entries), open, mid, sep)

\* the application/x-www-form-urlencoded byte serializer, on the characters used here
RECURSIVE FormEncode(_)
FormEncode(s) ==
  IF s = "" THEN ""
  ELSE LET ch == CharAt(s, 1)
       IN  (CASE ch = " " -> "+"
              [] ch = "&" -> "%26"
              [] ch = "=" -> "%3D"
              [] ch = "+" -> "%2B"
              [] ch = "/" -> "%2F"
              [] OTHER -> ch) \o FormEncode(Slice(s, 1))

\* params.toString()
ParamsToString(entries) ==
  JoinEntries([i \in 1..Len(entries) |-> <<FormEncode(entries[i][1]), FormEncode(entries[i][2])>>],
              "", "=", "&")

\* JSON.stringify(config.body)
JSONStringify(body) ==
  CASE body.kind = "string" -> "\"" \o body.text \o "\""
    [] body.kind = "object" ->
         "{" \o JoinEntries([i \in 1..Len(body.entries) |->
                               <<body.entries[i][1] \o "\"", body.entries[i][2] \o "\"">>],
                            "\"", ":\"", ",") \o "}"
    [] OTHER -> "{}"

-----------------------------------------------------------------------------
(* The protocol clients' performRequest: headers and body bytes for the    *)
(* shared dispatch, or the usage error thrown before it.                   *)

Encoded(headers, body) == [threw |-> FALSE, error |-> NoError, headers |-> headers, body |-> body]

UsageError(message) == [threw |-> TRUE, error |-> Error(message), headers |-> << >>, body |-> NoBytes]

XmlServiceClient_performRequest(config) ==
  LET headers == config.headers \o << <<"accept", "text/xml">> >>
  IN  IF config.body.kind = "Uint8Array" THEN Encoded(headers, Bytes(config.body.text))
      ELSE IF config.body.kind = "string"
      THEN Encoded(headers \o << <<"content-type", "text/xml">> >>, Bytes(config.body.text))
      ELSE IF Truthy(config.body) THEN UsageError("TODO: non-string body to XmlServiceClient")
      ELSE Encoded(headers, NoBytes)

JsonServiceClient_performRequest(self, config) ==
  LET headers == config.headers
        \o << <<"x-amz-target", self.serviceTarget \o "." \o config.action>>,
              <<"accept", "application/x-amz-json-" \o self.jsonVersion>> >>
  IN  IF config.body.kind = "Uint8Array" THEN Encoded(headers, Bytes(config.body.text))
      ELSE IF Truthy(config.body)
      THEN Encoded(headers \o << <<"content-type", "application/x-amz-json-" \o self.jsonVersion>> >>,
                   Bytes(JSONStringify(config.body)))
      ELSE Encoded(headers, NoBytes)

\* mutant: Action and Version are set after the caller's fields were copied
QueryServiceClient_callerFirst(self, config) ==
  LET headers == config.headers \o << <<"accept", "text/xml">> >>
      method == Coalesce(config.method, "POST")
      params == config.body.entries
                  \o << <<"Action", config.action>>, <<"Version", self.serviceVersion>> >>
  IN  IF config.body.kind = "URLSearchParams"
      THEN IF method # "POST" THEN UsageError("query is supposed to be POSTed")
           ELSE Encoded(headers \o << <<"content-type", "application/x-www-form-urlencoded; charset=utf-8">> >>,
                        Bytes(ParamsToString(params)))
      ELSE IF Truthy(config.body)
      THEN UsageError("BUG: non-query based request body passed to query client")
      ELSE Encoded(headers, NoBytes)

QueryServiceClient_performRequest(self, config) ==
  LET headers == config.headers \o << <<"accept", "text/xml">> >>
      method == Coalesce(config.method, "POST")
      params == << <<"Action", config.action>>, <<"Version", self.serviceVersion>> >>
                  \o config.body.entries
  IN  IF config.body.kind = "URLSearchParams"
      THEN IF method # "POST" THEN UsageError("query is supposed to be POSTed")
           ELSE Encoded(headers \o << <<"content-type", "application/x-www-form-urlencoded; charset=utf-8">> >>,
                        Bytes(ParamsToString(params)))
      ELSE IF Truthy(config.body)
      THEN UsageError("BUG: non-query based request body passed to query client")
      ELSE Encoded(headers, NoBytes)

\* the performRequest of the client that wrapServiceClient returned
Client_performRequest(self, config) ==
  CASE self.kind = "XmlServiceClient" -> XmlServiceClient_performRequest(config)
    [] self.kind = "JsonServiceClient" -> JsonServiceClient_performRequest(self, config)
    [] OTHER -> QueryServiceClient_performRequest(self, config)

-----------------------------------------------------------------------------
(* BaseServiceClient.performRequest up to the call of the signing fetcher  *)

NoRequest ==
  [method |-> "", headers |-> << >>, body |-> NoBytes, redirect |-> "", signal |-> undefined]

NoOpts == [urlPath |-> "", hostPrefix |-> undefined, skipSigning |-> FALSE, region |-> undefined]

\* new Request('https://example.com/', {...}) throws for a GET or HEAD with a body
RequestThrows(method, body) == body.present /\ method \in {"GET", "HEAD"}

\* the Request and the FetchOpts handed to the signing fetcher
BaseRequest(config, encoded) ==
  LET serviceUrl == Coalesce(config.requestUri, "/")
      method == Coalesce(config.method, "POST")
      headers == IF encoded.body.present
                 THEN encoded.headers \o << <<"content-length", NumToString(Len(encoded.body.text))>> >>
                 ELSE encoded.headers
      query == IF config.query # undefined /\ config.query # ""
               THEN (IF Includes(serviceUrl, "?") THEN "&" ELSE "?") \o config.query
               ELSE ""
  IN  [request |-> [method |-> method, headers |-> headers, body |-> encoded.body,
                    redirect |-> "manual", signal |-> config.abortSignal],
       opts |-> [urlPath |-> serviceUrl \o query, region |-> config.region,
                 skipSigning |-> config.skipSigning, hostPrefix |-> config.hostPrefix]]

-----------------------------------------------------------------------------
(* The signing fetcher                                                     *)

\* mutant: a first segment with a dot is rewritten too
BucketRewrite_dotted(self, apiMetadata, opts) ==
  IF apiMetadata.serviceId = "S3" /\ opts.urlPath # ""
       /\ (opts.hostPrefix = undefined \/ opts.hostPrefix = "")
       /\ (self.fixedEndpoint = undefined \/ self.fixedEndpoint = "")
  THEN LET bucketName == SplitFirst(Slice(opts.urlPath, 1))
           path == Slice(opts.urlPath, Len(bucketName) + 1)
       IN  IF Len(bucketName) > 0
           THEN [opts EXCEPT !.hostPrefix = bucketName \o ".",
                             !.urlPath = IF StartsWith(path, "/") THEN path ELSE "/" \o path]
           ELSE opts
  ELSE opts

\* QUIRK: host routing for S3 buckets
BucketRewrite(self, apiMetadata, opts) ==
  IF apiMetadata.serviceId = "S3" /\ opts.urlPath # ""
       /\ (opts.hostPrefix = undefined \/ opts.hostPrefix = "")
       /\ (self.fixedEndpoint = undefined \/ self.fixedEndpoint = "")
  THEN LET bucketName == SplitFirst(Slice(opts.urlPath, 1))
           path == Slice(opts.urlPath, Len(bucketName) + 1)
       IN  IF Len(bucketName) > 0 /\ ~Includes(bucketName, ".")
           THEN [opts EXCEPT !.hostPrefix = bucketName \o ".",
                             !.urlPath = IF StartsWith(path, "/") THEN path ELSE "/" \o path]
           ELSE opts
  ELSE opts

\* a region was found, or throwMissingRegion() was reached
Resolved(endpoint) == [threw |-> FALSE, error |-> NoError, endpoint |-> endpoint]

MissingRegion == [threw |-> TRUE, error |-> throwMissingRegion, endpoint |-> ""]

\* skipSigning: opts.region ?? this.#region, before any credentials are asked for
\* mutant: the factory's region is not looked at before the provider is asked
CheapRegion_perCallOnly(self, opts) == opts.region

CheapRegion(self, opts) == Coalesce(opts.region, self.region)

\* skipSigning: this.#fixedEndpoint ?? `https://...${region ?? throwMissingRegion()}...`
SkipSigningEndpoint(self, apiMetadata, opts, region) ==
  LET baseDomain == Coalesce(self.baseDomain, getRootDomain(apiMetadata.serviceId, region))
  IN  IF self.fixedEndpoint # undefined THEN Resolved(self.fixedEndpoint)
      ELSE IF OrElse(globalEndpointPrefix(apiMetadata), "") = "" /\ region = undefined
      THEN MissingRegion
      ELSE Resolved(AssembleEndpoint(apiMetadata, opts.hostPrefix, baseDomain, region))

\* mutant: us-east-1 only as the last resort of a global service
SigningRegion_globalLast(self, apiMetadata, opts, credentials) ==
  LET found == Coalesce(opts.region, Coalesce(self.region, credentials.region))
  IN  IF found = undefined /\ OrElse(apiMetadata.globalEndpoint, "") # "" THEN "us-east-1"
      ELSE found

\* signed: opts.region ?? (globalEndpoint ? 'us-east-1' : (this.#region ?? credentials.region ?? throw));
\* `undefined` stands for the throw
SigningRegion(self, apiMetadata, opts, credentials) ==
  IF opts.region # undefined THEN opts.region
  ELSE IF OrElse(apiMetadata.globalEndpoint, "") # "" THEN "us-east-1"
  ELSE Coalesce(self.region, credentials.region)

\* mutant: the signed branch assembles the hostname whatever the fixed endpoint
SignedEndpoint_assembled(self, apiMetadata, opts, region) ==
  AssembleEndpoint(apiMetadata, opts.hostPrefix,
                   Coalesce(self.baseDomain, getRootDomain(apiMetadata.serviceId, region)), region)

\* signed: this.#fixedEndpoint || `https://...`
SignedEndpoint(self, apiMetadata, opts, region) ==
  LET baseDomain == Coalesce(self.baseDomain, getRootDomain(apiMetadata.serviceId, region))
  IN  OrElse(self.fixedEndpoint, AssembleEndpoint(apiMetadata, opts.hostPrefix, baseDomain, region))

\* mutant: the signing name falls back to the fetcher's own (dual-stack) endpointPrefix
SigningName_localPrefix(apiMetadata) ==
  Coalesce(apiMetadata.signingName, endpointPrefix(apiMetadata))

\* const signingName = apiMetadata.signingName ?? apiMetadata.endpointPrefix
SigningName(apiMetadata) == Coalesce(apiMetadata.signingName, apiMetadata.endpointPrefix)

NoCredentials == [awsAccessKeyId |-> "", region |-> undefined]

NoSigner == [constructed |-> FALSE, region |-> undefined, credentials |-> NoCredentials]

\* signing.ts: new AWSSignerV4(region, credentials)
AWSSignerV4(region, credentials) ==
  [constructed |-> TRUE, region |-> region, credentials |-> credentials]

NoFetch ==
  [url |-> "", method |-> "", headers |-> << >>, body |-> NoBytes, redirect |-> "",
   signal |-> undefined, authorization |-> undefined]

\* skipSigning: fetch(new URL(opts.urlPath, endpoint).toString(), {headers, method, body, redirect})
UnsignedFetch(request, url) ==
  [url |-> url, method |-> request.method, headers |-> request.headers, body |-> request.body,
   redirect |-> request.redirect, signal |-> undefined, authorization |-> undefined]

\* signing.ts: signer.sign(signingName, fullUrl, request): the request addressed to
\* fullUrl, with the authorization bound to key, region and signing name
Sign(signer, signingName, fullUrl, request) ==
  [url |-> fullUrl, method |-> request.method, headers |-> request.headers,
   body |-> request.body, redirect |-> request.redirect, signal |-> request.signal,
   authorization |-> signer.credentials.awsAccessKeyId \o "/" \o signer.region
                       \o "/" \o signingName \o "/aws4_request"]

-----------------------------------------------------------------------------
(* Responses.  A body is what the server sent: an XML document, a JSON     *)
(* value, or other text.  readXmlResult fails on a body that is no XML     *)
(* document and response.json() on one that is no JSON value.              *)

XmlNode(name, content, children) == [name |-> name, content |-> content, children |-> children]

XmlLeaf(name, content) == XmlNode(name, content, << >>)

NoXml == XmlLeaf("", "")

\* a JSON value: null, or an object with the members the classifier reads
JsonNull ==
  [type |-> "null", Error |-> << >>, RequestId |-> undefined,
   typeMember |-> undefined, message |-> undefined, Message |-> undefined]

JsonObject(Err, RequestId, typeMember, message, Message) ==
  [type |-> "object", Error |-> Err, RequestId |-> RequestId,
   typeMember |-> typeMember, message |-> message, Message |-> Message]

XmlBody(doc) == [format |-> "xml", xml |-> doc, json |-> JsonNull, text |-> ""]

JsonBody(value) == [format |-> "json", xml |-> NoXml, json |-> value, text |-> ""]

TextBody(text) == [format |-> "text", xml |-> NoXml, json |-> JsonNull, text |-> text]

NoResponse ==
  [status |-> 0, statusText |-> "", contentType |-> undefined, requestId |-> undefined,
   body |-> TextBody("")]

\* common.ts: getRequestId(response.headers)
getRequestId(response) == response.requestId

\* xml.ts: node.first(name): the first child of that name, as << >> or <<child>>
XmlFirst(node, name) ==
  LET at == { i \in 1..Len(node.children) : node.children[i].name = name }
  IN  IF at = {} THEN << >> ELSE <<node.children[Min(at)]>>

\* xml.ts: node.first(name, false, x => x.content)
XmlFirstContent(node, name) ==
  IF XmlFirst(node, name) = << >> THEN undefined ELSE XmlFirst(node, name)[1].content

\* the children of that name, in document order
RECURSIVE XmlChildrenNamed(_, _)
XmlChildrenNamed(children, name) ==
  IF children = << >> THEN << >>
  ELSE (IF Head(children).name = name THEN <<Head(children)>> ELSE << >>)
         \o XmlChildrenNamed(Tail(children), name)

\* xml.ts: node.getList(listName, itemName)
XmlGetList(node, listName, itemName) ==
  IF XmlFirst(node, listName) = << >> THEN << >>
  ELSE XmlChildrenNamed(XmlFirst(node, listName)[1].children, itemName)

\* xml.ts: node.strings({required, optional}) read as a ServiceError: the contents of
\* the named children (no other child is read); a required child that is missing is
\* an error
XmlStrings(node, required, optional) ==
  LET read(key) == IF key \in required \cup optional THEN XmlFirstContent(node, key)
                   ELSE undefined
  IN  [threw |-> \E key \in required : XmlFirst(node, key) = << >>,
       error |-> Error("BUG: XmlNode " \o node.name \o " missing required keys"),
       value |-> [Code |-> read("Code"), Message |-> read("Message"), Type |-> read("Type")]]

Thrown(error) == [returned |-> FALSE, error |-> error]

\* `${contentType}` in a template: null prints as 'null'
Unrecognizable(contentType) ==
  Thrown(Error("Unrecognizable error response of type "
                 \o (IF contentType = undefined THEN "null" ELSE contentType)))

\* if (x) for an optional string
TruthyString(x) == x # undefined /\ x # ""

\* mutant: the EC2 shape reports the last error of the list
HandleXmlError_lastError(response, xml) ==
  LET errNode == XmlFirst(xml, "Error")
      errors == XmlGetList(xml, "Errors", "Error")
      fallthrough ==
        IF EndsWith(xml.name, "Exception")
        THEN LET fields == XmlStrings(xml, {"Message"}, {"Type"})
             IN  IF fields.threw THEN Thrown(fields.error)
                 ELSE Thrown(AwsServiceError([fields.value EXCEPT !.Code = xml.name],
                                             getRequestId(response)))
        ELSE Unrecognizable(response.contentType)
  IN  CASE xml.name = "ErrorResponse" ->
             IF errNode # << >>
             THEN LET fields == XmlStrings(errNode[1], {"Code", "Message", "Type"}, {})
                  IN  IF fields.threw THEN Thrown(fields.error)
                      ELSE Thrown(AwsServiceError(fields.value, XmlFirstContent(xml, "RequestId")))
             ELSE fallthrough
        [] xml.name = "Response" ->
             IF \E i \in 1..Len(errors) : XmlStrings(errors[i], {"Code", "Message"}, {"Type"}).threw
             THEN Thrown(XmlStrings(errors[1], {"Code", "Message"}, {"Type"}).error)
             ELSE IF Len(errors) > 0
             THEN Thrown(AwsServiceError(XmlStrings(errors[Len(errors)], {"Code", "Message"}, {"Type"}).value,
                                         XmlFirstContent(xml, "RequestID")))
             ELSE fallthrough
        [] xml.name = "Error" ->
             LET fields == XmlStrings(xml, {"Code", "Message"}, {"Token-0", "HostId"})
             IN  IF fields.threw THEN Thrown(fields.error)
                 ELSE Thrown(AwsServiceError(fields.value, XmlFirstContent(xml, "RequestId")))
        [] OTHER -> fallthrough

\* the XML branch of handleErrorResponse, after readXmlResult
HandleXmlError(response, xml) ==
  LET errNode == XmlFirst(xml, "Error")
      errors == XmlGetList(xml, "Errors", "Error")
      fallthrough ==
        IF EndsWith(xml.name, "Exception")
        THEN LET fields == XmlStrings(xml, {"Message"}, {"Type"})
             IN  IF fields.threw THEN Thrown(fields.error)
                 ELSE Thrown(AwsServiceError([fields.value EXCEPT !.Code = xml.name],
                                             getRequestId(response)))
        ELSE Unrecognizable(response.contentType)
  IN  CASE xml.name = "ErrorResponse" ->
             IF errNode # << >>
             THEN LET fields == XmlStrings(errNode[1], {"Code", "Message", "Type"}, {})
                  IN  IF fields.threw THEN Thrown(fields.error)
                      ELSE Thrown(AwsServiceError(fields.value, XmlFirstContent(xml, "RequestId")))
             ELSE fallthrough
        [] xml.name = "Response" ->
             IF \E i \in 1..Len(errors) : XmlStrings(errors[i], {"Code", "Message"}, {"Type"}).threw
             THEN Thrown(XmlStrings(errors[1], {"Code", "Message"}, {"Type"}).error)
             ELSE IF Len(errors) > 0
             THEN Thrown(AwsServiceError(XmlStrings(errors[1], {"Code", "Message"}, {"Type"}).value,
                                         XmlFirstContent(xml, "RequestID")))
             ELSE fallthrough
        [] xml.name = "Error" ->
             LET fields == XmlStrings(xml, {"Code", "Message"}, {"Token-0", "HostId"})
             IN  IF fields.threw THEN Thrown(fields.error)
                 ELSE Thrown(AwsServiceError(fields.value, XmlFirstContent(xml, "RequestId")))
        [] OTHER -> fallthrough

JsonSyntaxError == NativeError("SyntaxError", "Unexpected token in JSON")

\* reading a member of null
NullTypeError == NativeError("TypeError", "Cannot read properties of null")

\* handleErrorResponse once the body has been read (every method but HEAD)
HandleErrorBody(response) ==
  LET contentType == response.contentType
      body == response.body
      data == body.json
  IN  IF contentType = undefined \/ contentType = ""
           \/ StartsWith(contentType, "text/xml") \/ StartsWith(contentType, "application/xml")
      THEN IF body.format # "xml" THEN Thrown(Error("xml.ts: not an XML document"))
           ELSE HandleXmlError(response, body.xml)
      ELSE IF StartsWith(contentType, "application/json")
      THEN IF body.format # "json" THEN Thrown(JsonSyntaxError)
           ELSE IF data.type = "null" THEN Thrown(NullTypeError)
           ELSE IF data.Error # << >> /\ TruthyString(data.Error[1].Code)
           THEN Thrown(AwsServiceError(data.Error[1], data.RequestId))
           ELSE Unrecognizable(contentType)
      ELSE IF StartsWith(contentType, "application/x-amz-json-1.")
      THEN IF body.format # "json" THEN Thrown(JsonSyntaxError)
           ELSE IF data.type = "null" THEN Thrown(NullTypeError)
           ELSE IF TruthyString(data.typeMember) /\ TruthyString(data.message)
           THEN Thrown(AwsServiceError([Code |-> data.typeMember, Message |-> data.message,
                                        Type |-> undefined], getRequestId(response)))
           ELSE IF TruthyString(data.typeMember) /\ TruthyString(data.Message)
           THEN Thrown(AwsServiceError([Code |-> data.typeMember, Message |-> data.Message,
                                        Type |-> undefined], getRequestId(response)))
           ELSE Unrecognizable(contentType)
      ELSE Unrecognizable(contentType)

\* handleErrorResponse for a HEAD request: from the status line alone
HandleHeadError(response) ==
  Thrown(AwsServiceError([Code |-> "Http" \o NumToString(response.status),
                          Message |-> "HTTP error status: " \o response.statusText,
                          Type |-> undefined], getRequestId(response)))

\* config.responseCode ?? 200
ExpectedStatus(config) == IF IsNullish(config.responseCode) THEN 200 ELSE config.responseCode[1]

\* mutant: the success range is tested before the error branch, and has no upper end
StatusBranch_openRange(config, response) ==
  IF response.status = ExpectedStatus(config) THEN "return"
  ELSE IF response.status >= 200 THEN "warn"
  ELSE "throw"

\* mutant: only the expected status is a success
StatusBranch_strict(config, response) ==
  IF response.status = ExpectedStatus(config) THEN "return"
  ELSE IF response.status >= 400 THEN "handleErrorResponse"
  ELSE "throw"

\* the branch performRequest takes on the response status
StatusBranch(config, response) ==
  IF response.status = ExpectedStatus(config) THEN "return"
  ELSE IF response.status >= 400 THEN "handleErrorResponse"
  ELSE IF response.status >= 200 /\ response.status < 300 THEN "warn"
  ELSE "throw"

UnexpectedStatus(response) ==
  Error("BUG: Unexpected HTTP response status " \o NumToString(response.status))

-----------------------------------------------------------------------------
(* One logical call                                                        *)

NoConfig ==
  [action |-> "", method |-> undefined, requestUri |-> undefined, query |-> undefined,
   headers |-> << >>, body |-> NoBody, region |-> undefined, hostPrefix |-> undefined,
   skipSigning |-> FALSE, responseCode |-> << >>, abortSignal |-> undefined]

\* getCredentials and fetches count the call's uses of the provider and of the
\* transport; rejected records that the provider rejected the call's getCredentials()
\* pc: idle, then getCredentials | sign | fetch | body while the call awaits the
\* provider, the signer, the transport or the response body, then returned | threw
IdleCall ==
  [pc |-> "idle", config |-> NoConfig, request |-> NoRequest, opts |-> NoOpts,
   region |-> undefined, url |-> "", signer |-> NoSigner, signingName |-> undefined,
   credentials |-> NoCredentials, fetched |-> NoFetch, response |-> NoResponse,
   error |-> NoError, warned |-> FALSE, getCredentials |-> 0, fetches |-> 0,
   rejected |-> FALSE]

Throw(call, error) == [call EXCEPT !.pc = "threw", !.error = error]

\* the skipSigning branch from the point where the region is known (or known missing)
SkipSigningFetch(call, region) ==
  LET resolved == SkipSigningEndpoint(factory, client.apiMetadata, call.opts, region)
      url == NewURL(call.opts.urlPath, resolved.endpoint)
  IN  IF resolved.threw THEN Throw(call, resolved.error)
      ELSE [call EXCEPT !.pc = "fetch", !.region = region, !.url = url,
                        !.fetched = UnsignedFetch(call.request, url),
                        !.fetches = @ + 1]

\* the signed branch once the credentials are there: up to the call of signer.sign
SignedRequest(call, credentials) ==
  LET region == SigningRegion(factory, client.apiMetadata, call.opts, credentials)
      endpoint == SignedEndpoint(factory, client.apiMetadata, call.opts, region)
  IN  IF region = undefined THEN Throw([call EXCEPT !.credentials = credentials], throwMissingRegion)
      ELSE [call EXCEPT !.pc = "sign", !.region = region, !.credentials = credentials,
                        !.signer = AWSSignerV4(region, credentials),
                        !.signingName = SigningName(client.apiMetadata),
                        !.url = NewURL(call.opts.urlPath, endpoint)]

\* client.performRequest(config) up to its first suspension: the protocol client, the
\* shared dispatch and the signing fetcher run until the provider or the transport
\* is awaited
StartCall(call, config) ==
  LET started == [call EXCEPT !.config = config]
      encoded == Client_performRequest(client, config)
      base == BaseRequest(config, encoded)
      entered == [started EXCEPT !.request = base.request,
                                 !.opts = BucketRewrite(factory, client.apiMetadata, base.opts)]
  IN  IF encoded.threw THEN Throw(started, encoded.error)
      ELSE IF RequestThrows(base.request.method, encoded.body)
      THEN Throw(started, NativeError("TypeError", "Request with GET/HEAD method cannot have body."))
      ELSE IF entered.opts.skipSigning /\ CheapRegion(factory, entered.opts) # undefined
      THEN SkipSigningFetch(entered, CheapRegion(factory, entered.opts))
      ELSE [entered EXCEPT !.pc = "getCredentials", !.getCredentials = @ + 1]

\* mutant: an error response is fetched a second time
ReceiveResponse_retry(call, response) ==
  LET got == [call EXCEPT !.response = response]
      branch == StatusBranch(call.config, response)
  IN  CASE branch = "return" -> [got EXCEPT !.pc = "returned"]
        [] branch = "warn" -> [got EXCEPT !.pc = "returned", !.warned = TRUE]
        [] branch = "throw" -> Throw(got, UnexpectedStatus(response))
        [] OTHER ->
             IF call.fetches < 2
             THEN [call EXCEPT !.pc = "fetch", !.fetches = @ + 1]
             ELSE IF call.request.method = "HEAD" THEN Throw(got, HandleHeadError(response).error)
             ELSE [got EXCEPT !.pc = "body"]

\* mutant: the request method is not looked at before the content-type dispatch
ReceiveResponse_headBody(call, response) ==
  LET got == [call EXCEPT !.response = response]
      branch == StatusBranch(call.config, response)
  IN  CASE branch = "return" -> [got EXCEPT !.pc = "returned"]
        [] branch = "warn" -> [got EXCEPT !.pc = "returned", !.warned = TRUE]
        [] branch = "throw" -> Throw(got, UnexpectedStatus(response))
        [] OTHER -> [got EXCEPT !.pc = "body"]

\* the rest of performRequest and the synchronous head of handleErrorResponse
ReceiveResponse(call, response) ==
  LET got == [call EXCEPT !.response = response]
      branch == StatusBranch(call.config, response)
  IN  CASE branch = "return" -> [got EXCEPT !.pc = "returned"]
        [] branch = "warn" -> [got EXCEPT !.pc = "returned", !.warned = TRUE]
        [] branch = "throw" -> Throw(got, UnexpectedStatus(response))
        [] OTHER ->
             IF call.request.method = "HEAD" THEN Throw(got, HandleHeadError(response).error)
             ELSE [got EXCEPT !.pc = "body"]

-----------------------------------------------------------------------------
(* Actions                                                                 *)

NoProviderCalls == [invocations |-> 0, outstanding |-> 0]

\* what a rejected getCredentials() carries
CredentialsError == NativeError("CredentialsError", "getCredentials rejected")

Construct(opts, env) ==
  /\ factory.state = "none"
  /\ factory' = BaseApiFactory(opts, env)
  /\ UNCHANGED <<client, calls, provider, ensure, aborted>>

Build(apiMetadata) ==
  /\ factory.state = "built"
  /\ client.state = "none"
  /\ client' = buildServiceClient(apiMetadata)
  /\ UNCHANGED <<factory, calls, provider, ensure, aborted>>

Call(c, config) ==
  /\ client.state = "built"
  /\ calls[c].pc = "idle"
  /\ calls' = [calls EXCEPT ![c] = StartCall(calls[c], config)]
  /\ provider' = IF calls'[c].pc = "getCredentials"
                 THEN [invocations |-> provider.invocations + 1,
                       outstanding |-> provider.outstanding + 1]
                 ELSE provider
  /\ UNCHANGED <<factory, client, ensure, aborted>>

\* getCredentials() settles: resolved with credentials, or rejected
CredentialsSettle(c) ==
  /\ calls[c].pc = "getCredentials"
  /\ \E outcome \in factory.credentials.outcomes :
       LET settled == [calls[c] EXCEPT !.rejected = ~outcome.ok]
       IN  calls' = [calls EXCEPT ![c] =
             IF settled.opts.skipSigning
             THEN SkipSigningFetch(settled, IF outcome.ok THEN outcome.credentials.region
                                                          ELSE undefined)
             ELSE IF ~outcome.ok THEN Throw(settled, CredentialsError)
             ELSE SignedRequest(settled, outcome.credentials)]
  /\ provider' = [provider EXCEPT !.outstanding = @ - 1]
  /\ UNCHANGED <<factory, client, ensure, aborted>>

\* signer.sign() settles and the signed request is handed to fetch
SignSettle(c) ==
  /\ calls[c].pc = "sign"
  /\ calls' = [calls EXCEPT ![c] =
       [calls[c] EXCEPT !.pc = "fetch",
                        !.fetched = Sign(calls[c].signer, calls[c].signingName,
                                         calls[c].url, calls[c].request),
                        !.fetches = @ + 1]]
  /\ UNCHANGED <<factory, client, provider, ensure, aborted>>

\* fetch() resolves with a response
Respond(c, response) ==
  /\ calls[c].pc = "fetch"
  /\ calls' = [calls EXCEPT ![c] = ReceiveResponse(calls[c], response)]
  /\ UNCHANGED <<factory, client, provider, ensure, aborted>>

\* fetch() rejects
TransportFail(c) ==
  /\ calls[c].pc = "fetch"
  /\ calls' = [calls EXCEPT ![c] = Throw(calls[c], NativeError("TypeError", "error sending request"))]
  /\ UNCHANGED <<factory, client, provider, ensure, aborted>>

\* response.text() / response.json() settles and handleErrorResponse classifies
ReadBody(c) ==
  /\ calls[c].pc = "body"
  /\ calls' = [calls EXCEPT ![c] = Throw(calls[c], HandleErrorBody(calls[c].response).error)]
  /\ UNCHANGED <<factory, client, provider, ensure, aborted>>

\* ensureCredentialsAvailable(): idle, awaiting getCredentials(), returned or threw
NoEnsure == [pc |-> "idle", credentials |-> NoCredentials, error |-> NoError]

\* ensureCredentialsAvailable once getCredentials() has settled with outcome
ensureCredentialsAvailable(outcome) ==
  IF ~outcome.ok THEN [pc |-> "threw", credentials |-> NoCredentials, error |-> CredentialsError]
  ELSE IF outcome.credentials.awsAccessKeyId # ""
  THEN [pc |-> "returned", credentials |-> outcome.credentials, error |-> NoError]
  ELSE [pc |-> "threw", credentials |-> outcome.credentials,
        error |-> Error("Empty credentials were returned successfully (somehow?)")]

EnsureStart ==
  /\ factory.state = "built"
  /\ ensure.pc = "idle"
  /\ ensure' = [ensure EXCEPT !.pc = "getCredentials"]
  /\ provider' = [invocations |-> provider.invocations + 1,
                  outstanding |-> provider.outstanding + 1]
  /\ UNCHANGED <<factory, client, calls, aborted>>

EnsureSettle ==
  /\ ensure.pc = "getCredentials"
  /\ \E outcome \in factory.credentials.outcomes : ensure' = ensureCredentialsAvailable(outcome)
  /\ provider' = [provider EXCEPT !.outstanding = @ - 1]
  /\ UNCHANGED <<factory, client, calls, aborted>>

\* the caller aborts an AbortSignal
Abort(signal) ==
  /\ signal \notin aborted
  /\ aborted' = aborted \cup {signal}
  /\ UNCHANGED <<factory, client, calls, provider, ensure>>

\* a fetch that was given an aborted signal rejects with an AbortError
AbortFetch(c) ==
  /\ calls[c].pc = "fetch"
  /\ calls[c].fetched.signal \in aborted
  /\ calls' = [calls EXCEPT ![c] = Throw(calls[c], NativeError("AbortError", "The signal has been aborted"))]
  /\ UNCHANGED <<factory, client, provider, ensure, aborted>>

-----------------------------------------------------------------------------
(* Inputs                                                                  *)

Credentials(region) == [awsAccessKeyId |-> "AKIDEXAMPLE", region |-> region]

Resolves(credentials) == [ok |-> TRUE, credentials |-> credentials]

Rejects == [ok |-> FALSE, credentials |-> NoCredentials]

\* a CredentialsProvider whose getCredentials() may settle in any of `outcomes`
StubProvider(outcomes) == [outcomes |-> outcomes]

Env(AWS_REGION, error) == [AWS_REGION |-> AWS_REGION, error |-> error]

PlainEnv == Env(undefined, undefined)

Metadata(serviceId, prefix, protocol, signatureVersion, globalEndpoint, signingName) ==
  [NoMetadata EXCEPT !.serviceId = serviceId, !.endpointPrefix = prefix,
                     !.protocol = protocol, !.signatureVersion = signatureVersion,
                     !.globalEndpoint = globalEndpoint, !.signingName = signingName,
                     !.apiVersion = "2012-10-17"]

S3 == Metadata("S3", "s3", "rest-xml", "s3v4", undefined, undefined)

EC2 == Metadata("EC2", "ec2", "ec2", "v4", undefined, undefined)

IAM == Metadata("IAM", "iam", "query", "v4", "iam.amazonaws.com", undefined)

SESv2 == Metadata("SESv2", "email", "rest-json", "v4", undefined, "ses")

DynamoDB ==
  [Metadata("DynamoDB", "dynamodb", "json", "v4", undefined, undefined)
     EXCEPT !.targetPrefix = "DynamoDB_20120810", !.jsonVersion = "1.0"]

SimpleDB == Metadata("SimpleDB", "sdb", "query", "v2", undefined, undefined)

Unsupported == Metadata("Other", "other", "rest-cbor", "v4", undefined, undefined)

Config(method, requestUri, body, region, hostPrefix, skipSigning, responseCode) ==
  [NoConfig EXCEPT !.action = "DoThing", !.method = method, !.requestUri = requestUri,
                   !.body = body, !.region = region, !.hostPrefix = hostPrefix,
                   !.skipSigning = skipSigning, !.responseCode = responseCode]

Response(status, statusText, contentType, body) ==
  [status |-> status, statusText |-> statusText, contentType |-> contentType,
   requestId |-> "req-header", body |-> body]

Ok200 == Response(200, "OK", "text/xml", XmlBody(XmlLeaf("Result", "")))

\* <ErrorResponse><Error><Type/><Code/><Message/></Error><RequestId/></ErrorResponse>
StsError ==
  XmlNode("ErrorResponse", "",
    << XmlNode("Error", "", << XmlLeaf("Type", "Sender"), XmlLeaf("Code", "ExpiredToken"),
                               XmlLeaf("Message", "token expired") >>),
       XmlLeaf("RequestId", "req-sts") >>)

NotFound404 == Response(404, "Not Found", "text/xml", XmlBody(StsError))

-----------------------------------------------------------------------------
(* Specifications: the same actions over the inputs each set of claims     *)
(* needs                                                                   *)

CallIds == {1}

Init ==
  /\ factory = NoFactory
  /\ client = NoClient
  /\ calls = [c \in CallIds |-> IdleCall]
  /\ provider = NoProviderCalls
  /\ ensure = NoEnsure
  /\ aborted = {}

\* the steps of the factory, the client and the calls Ids
RunCalls(Ids, Optss, Envs, Metadatas, Configs, Responses) ==
  \/ \E opts \in Optss, env \in Envs : Construct(opts, env)
  \/ \E apiMetadata \in Metadatas : Build(apiMetadata)
  \/ \E c \in Ids, config \in Configs : Call(c, config)
  \/ \E c \in Ids : CredentialsSettle(c)
  \/ \E c \in Ids : SignSettle(c)
  \/ \E c \in Ids, response \in Responses : Respond(c, response)
  \/ \E c \in Ids : TransportFail(c)
  \/ \E c \in Ids : ReadBody(c)

Run(Optss, Envs, Metadatas, Configs, Responses) ==
  RunCalls(CallIds, Optss, Envs, Metadatas, Configs, Responses)

\* endpoint resolution and signing: factories, services and per-call overrides
EndpointOpts ==
  { FactoryOpts(cr[1], cr[2], region, fixedEndpoint, baseDomain) :
      cr \in { << <<Credentials(undefined)>>, << >> >>,
               << <<Credentials("eu-west-1")>>, << >> >>,
               << << >>, <<StubProvider({Resolves(Credentials("ap-south-1")), Rejects})>> >>,
               << << >>, << >> >> },
      region \in {undefined, "us-west-2"},
      fixedEndpoint \in {undefined, "http://localhost:9000", "https://minio.example.com/base/",
                         "localhost:9000"},
      baseDomain \in {undefined, "example.org"} }

EndpointMetadatas == {S3, EC2, IAM, SESv2, DynamoDB, SimpleDB, Unsupported}

EndpointRegions ==
  {undefined, "us-east-1", "ap-northeast-1", "cn-north-1", "us-iso-east-1", "us-isob-east-1",
   "us-gov-west-1"}

EndpointConfigs ==
  { Config(undefined, requestUri, NoBody, region, hostPrefix, skipSigning, << >>) :
      requestUri \in {"/", "/my-bucket/key?versionId=3"},
      region \in EndpointRegions,
      hostPrefix \in {undefined, "data."},
      skipSigning \in BOOLEAN }

Next == Run(EndpointOpts, {PlainEnv}, EndpointMetadatas, EndpointConfigs, {Ok200, NotFound404})

Spec == Init /\ [][Next]_vars

\* request encoding and response classification: one signing factory, a client of
\* each protocol, every kind of body, and the responses a service or a gateway sends
DispatchOpts == {FactoryOpts(<<Credentials(undefined)>>, << >>, "us-west-2", undefined, undefined)}

DispatchMetadatas == {S3, EC2, IAM, SESv2, DynamoDB}

Object(entries) == [kind |-> "object", text |-> "", entries |-> entries]

URLSearchParams(entries) == [kind |-> "URLSearchParams", text |-> "", entries |-> entries]

DispatchBodies ==
  { NoBody,
    [kind |-> "Uint8Array", text |-> "raw", entries |-> << >>],
    [kind |-> "string", text |-> "<a/>", entries |-> << >>],
    [kind |-> "string", text |-> "", entries |-> << >>],
    Object(<< <<"Name", "x">> >>),
    URLSearchParams(<< <<"Name", "x">> >>),
    URLSearchParams(<< <<"Version", "1">>, <<"Action", "Other">>, <<"Name", "a b&c=d">> >>) }

DispatchConfigs ==
  { Config(method, "/", body, undefined, undefined, FALSE, responseCode) :
      method \in {undefined, "GET", "HEAD", "PUT"},
      body \in DispatchBodies,
      responseCode \in {<< >>, <<204>>, <<404>>} }

\* <Response><Errors>...</Errors><RequestID/></Response>
Ec2Errors(errors) ==
  XmlNode("Response", "", << XmlNode("Errors", "", errors), XmlLeaf("RequestID", "req-ec2") >>)

CodeAndMessage == << XmlLeaf("Code", "RequestExpired"), XmlLeaf("Message", "Request has expired.") >>

ErrorDocuments ==
  { StsError,
    XmlNode("ErrorResponse", "", << XmlLeaf("RequestId", "req-sts") >>),
    Ec2Errors(<< XmlNode("Error", "", CodeAndMessage),
                 XmlNode("Error", "", << XmlLeaf("Code", "Unavailable"),
                                         XmlLeaf("Message", "Try again later.") >>) >>),
    Ec2Errors(<< >>),
    XmlNode("Error", "", CodeAndMessage \o << XmlLeaf("RequestId", "req-s3") >>),
    XmlNode("AccessDeniedException", "", << XmlLeaf("Message", "denied") >>),
    XmlNode("html", "", << XmlLeaf("body", "Bad Gateway") >>) }

JsonError(Code, Message) == <<[Code |-> Code, Message |-> Message, Type |-> undefined]>>

ErrorValues ==
  { JsonObject(JsonError("Throttled", "slow down"), "req-json", undefined, undefined, undefined),
    JsonObject(JsonError(undefined, "slow down"), undefined, undefined, undefined, undefined),
    JsonObject(<< >>, undefined, undefined, undefined, undefined),
    JsonObject(<< >>, undefined, "ValidationException", "bad input", undefined),
    JsonObject(<< >>, undefined, "ValidationException", undefined, "bad input"),
    JsonObject(<< >>, undefined, "ValidationException", undefined, undefined),
    JsonObject(<< >>, undefined, undefined, "bad input", undefined),
    JsonNull }

ErrorBodies ==
  { <<contentType, XmlBody(doc)>> :
      contentType \in {undefined, "text/xml", "application/xml; charset=utf-8"},
      doc \in ErrorDocuments }
  \cup { <<contentType, body>> :
      contentType \in {"application/json", "application/x-amz-json-1.1"},
      body \in {JsonBody(value) : value \in ErrorValues} \cup {TextBody("<html>Bad Gateway</html>")} }
  \cup { <<"text/html", TextBody("<html>Bad Gateway</html>")>> }

DispatchResponses ==
  { Response(status, "", "text/xml", XmlBody(XmlLeaf("Result", ""))) :
      status \in {100, 200, 204, 301} }
  \cup { Response(status, "Failed", b[1], b[2]) : status \in {404, 500}, b \in ErrorBodies }

NextDispatch ==
  Run(DispatchOpts, {PlainEnv}, DispatchMetadatas, DispatchConfigs, DispatchResponses)

SpecDispatch == Init /\ [][NextDispatch]_vars

\* the S3 bucket rewrite: every path of up to MaxPathLen characters over separators,
\* a dot and a letter, with and without host prefix, query and fixed endpoint
MaxPathLen == 4

PathAlphabet == {"/", "?", ".", "a"}

RECURSIVE Strings(_)
Strings(n) == IF n = 0 THEN {""} ELSE {s \o a : s \in Strings(n - 1), a \in PathAlphabet}

RewritePaths ==
  {"/" \o s : s \in UNION {Strings(n) : n \in 0..(MaxPathLen - 1)}}
    \cup {"/my-bucket/key", "/my.bucket/key"}

RewriteOpts ==
  { FactoryOpts(<<Credentials(undefined)>>, << >>, "us-west-2", fixedEndpoint, undefined) :
      fixedEndpoint \in {undefined, "http://localhost:9000"} }

RewriteConfigs ==
  { [Config(undefined, requestUri, NoBody, undefined, hostPrefix, skipSigning, << >>)
       EXCEPT !.query = query] :
      requestUri \in RewritePaths,
      hostPrefix \in {undefined, "data."},
      skipSigning \in BOOLEAN,
      query \in {undefined, "list-type=2"} }

NextRewrite == Run(RewriteOpts, {PlainEnv}, {S3, SESv2, EC2}, RewriteConfigs, {Ok200, NotFound404})

SpecRewrite == Init /\ [][NextRewrite]_vars

\* concurrent calls on one factory and one counting provider, with and without an
\* AbortSignal, signed and unsigned
MaxCalls == 2

ConcurrentCallIds == 1..MaxCalls

AbortSignals == {"signal-a", "signal-b"}

ConcurrentOpts ==
  { FactoryOpts(<< >>, <<StubProvider({Resolves(Credentials(undefined)), Rejects})>>,
                "us-west-2", undefined, undefined) }

ConcurrentConfigs ==
  { [Config(undefined, "/", NoBody, undefined, undefined, skipSigning, << >>)
       EXCEPT !.abortSignal = abortSignal] :
      skipSigning \in BOOLEAN,
      abortSignal \in {undefined} \cup AbortSignals }

InitConcurrent ==
  /\ factory = NoFactory
  /\ client = NoClient
  /\ calls = [c \in ConcurrentCallIds |-> IdleCall]
  /\ provider = NoProviderCalls
  /\ ensure = NoEnsure
  /\ aborted = {}

NextConcurrent ==
  \/ RunCalls(ConcurrentCallIds, ConcurrentOpts, {PlainEnv}, {S3}, ConcurrentConfigs,
              {Ok200, NotFound404})
  \/ \E signal \in AbortSignals : Abort(signal)
  \/ \E c \in ConcurrentCallIds : AbortFetch(c)

SpecConcurrent == InitConcurrent /\ [][NextConcurrent]_vars

\* construction: every combination of credentials sources, in every environment,
\* followed by calls and by ensureCredentialsAvailable()
FactoryCredentials ==
  {<< >>, <<Credentials(undefined)>>, <<Credentials("eu-west-1")>>, <<NoCredentials>>}

FactoryProviders == {<< >>, <<StubProvider({Resolves(Credentials("ap-south-1")), Rejects})>>}

FactoryEnvs ==
  {PlainEnv, Env("eu-central-1", undefined), Env(undefined, "PermissionDenied"),
   Env(undefined, "TypeError")}

FactoryOptss ==
  { FactoryOpts(credentials, credentialProvider, region, undefined, undefined) :
      credentials \in FactoryCredentials,
      credentialProvider \in FactoryProviders,
      region \in {undefined, "us-west-2"} }

FactoryConfigs ==
  { Config(undefined, "/", NoBody, undefined, undefined, skipSigning, << >>) :
      skipSigning \in BOOLEAN }

NextFactory ==
  \/ Run(FactoryOptss, FactoryEnvs, {S3, IAM}, FactoryConfigs, {Ok200, NotFound404})
  \/ EnsureStart
  \/ EnsureSettle

SpecFactory == Init /\ [][NextFactory]_vars

-----------------------------------------------------------------------------
(* Claims                                                                  *)

\* the path and query a call asks for: serviceUrl + query of performRequest
CallPath(config) ==
  Coalesce(config.requestUri, "/")
    \o (IF config.query = undefined \/ config.query = "" THEN ""
        ELSE (IF Includes(Coalesce(config.requestUri, "/"), "?") THEN "&" ELSE "?") \o config.query)

IsGlobal(apiMetadata) == apiMetadata.globalEndpoint # undefined

\* a signed call whose credentials have been obtained
SignedWithCredentials(call) ==
  /\ ~call.config.skipSigning
  /\ call.getCredentials = 1
  /\ call.pc # "getCredentials"
  /\ call.error.name # "CredentialsError"

\* the region a signed call signs with, or the missing-region error when there is none
SignsWith(call, region) ==
  IF region = undefined THEN call.pc = "threw" /\ call.error = throwMissingRegion
  ELSE call.signer.constructed /\ call.signer.region = region /\ call.error # throwMissingRegion

\* C5 as stated: per-call region, then factory region, then the credentials' hint,
\* and only when all three are absent us-east-1 for a global service, else the
\* missing-region error.
C5_RegionPrecedenceAsStated ==
  \A c \in DOMAIN calls :
    LET call == calls[c]
        found == Coalesce(call.config.region, Coalesce(factory.region, call.credentials.region))
    IN  SignedWithCredentials(call) =>
          SignsWith(call, IF found = undefined /\ IsGlobal(client.apiMetadata)
                          THEN "us-east-1" ELSE found)

\* C5 amended: a signed call signs with the per-call region; else, for a service with
\* a global endpoint, with us-east-1 (whatever the factory or the credentials say);
\* else with the factory region, else the credentials' hint, else it fails with the
\* missing-region error.
C5_RegionPrecedence ==
  \A c \in DOMAIN calls :
    LET call == calls[c]
    IN  SignedWithCredentials(call) =>
          SignsWith(call,
            IF call.config.region # undefined THEN call.config.region
            ELSE IF IsGlobal(client.apiMetadata) THEN "us-east-1"
            ELSE IF factory.region # undefined THEN factory.region
            ELSE call.credentials.region)

\* C5 witness: a global service under a factory with a region, no per-call region:
\* signed with us-east-1
C5_Witness ==
  \E c \in DOMAIN calls :
    /\ SignedWithCredentials(calls[c])
    /\ IsGlobal(client.apiMetadata)
    /\ calls[c].config.region = undefined
    /\ factory.region = "us-west-2"
    /\ calls[c].signer.region = "us-east-1"
    /\ calls[c].pc = "fetch"

WithoutTrailingSlash(url) == IF EndsWith(url, "/") THEN Prefix(url, Len(url) - 1) ELSE url

\* C7 as stated: with a fixed endpoint configured every request goes to that endpoint
\* verbatim with the call's path/query appended.
C7_FixedEndpointVerbatim ==
  \A c \in DOMAIN calls :
    (factory.opts.fixedEndpoint # undefined /\ calls[c].fetches > 0) =>
      calls[c].fetched.url
        = WithoutTrailingSlash(factory.opts.fixedEndpoint) \o CallPath(calls[c].config)

\* C7 amended: with a fixed endpoint configured every request, signed or not, goes to
\* the fixed endpoint's origin (scheme://host[:port]) with the call's path/query as its
\* path/query (a path of the fixed endpoint itself is replaced), whatever the service,
\* region, host prefix, global endpoint and base-domain override.
C7_FixedEndpoint ==
  \A c \in DOMAIN calls :
    (factory.opts.fixedEndpoint # undefined /\ calls[c].fetches > 0) =>
      calls[c].fetched.url
        = UrlOrigin(factory.opts.fixedEndpoint) \o CallPath(calls[c].config)

\* C7 witness: fixed endpoint and base domain both supplied; a signed S3 request with
\* a per-call host prefix and region was sent
C7_Witness ==
  \E c \in DOMAIN calls :
    /\ factory.opts.fixedEndpoint = "https://minio.example.com/base/"
    /\ factory.opts.baseDomain = "example.org"
    /\ client.apiMetadata.serviceId = "S3"
    /\ calls[c].config.hostPrefix = "data."
    /\ calls[c].config.region = "cn-north-1"
    /\ ~calls[c].config.skipSigning
    /\ calls[c].fetches = 1
    /\ calls[c].fetched.url = "https://minio.example.com/my-bucket/key?versionId=3"

\* the base domain C8 states for a service and a region
C8_Domain(serviceId, region) ==
  IF StartsWith(region, "cn-") THEN "amazonaws.com.cn"
  ELSE IF StartsWith(region, "us-iso-") THEN "c2s.ic.gov"
  ELSE IF StartsWith(region, "us-isob-") THEN "sc2s.sgov.gov"
  ELSE IF serviceId = "EC2" /\ region \in dualStackEc2Regions THEN "aws"
  ELSE "amazonaws.com"

\* C8: without base-domain override or fixed endpoint, the host a request is sent to
\* is {host prefix}{'api.' iff the domain is 'aws'}{global prefix, or endpoint
\* prefix.region}.{domain}, the domain chosen by partition prefix and the EC2
\* allow-list (a region that is absent counts as us-east-1), and the endpoint prefix
\* of S3 is s3.dualstack.
C8_BaseDomain ==
  \A c \in DOMAIN calls :
    LET call == calls[c]
        meta == client.apiMetadata
        region == Coalesce(call.region, "us-east-1")
        domain == C8_Domain(meta.serviceId, region)
        prefix == IF meta.serviceId = "S3" THEN "s3.dualstack" ELSE meta.endpointPrefix
    IN  (call.fetches > 0 /\ factory.opts.fixedEndpoint = undefined
           /\ factory.opts.baseDomain = undefined) =>
          UrlOrigin(call.fetched.url)
            = "https://" \o Coalesce(call.opts.hostPrefix, "")
                \o (IF domain = "aws" THEN "api." ELSE "")
                \o (IF IsGlobal(meta) THEN globalEndpointPrefix(meta)
                    ELSE prefix \o "." \o region)
                \o "." \o domain

\* C8 witness: EC2 in an allow-listed region is sent to the dual-stack host
C8_Witness ==
  \E c \in DOMAIN calls :
    /\ client.apiMetadata.serviceId = "EC2"
    /\ calls[c].region = "us-west-2"
    /\ calls[c].fetches = 1
    /\ UrlOrigin(calls[c].fetched.url) = "https://api.ec2.us-west-2.aws"

\* C9: a skipSigning call never constructs a signer and never awaits a signature: what
\* it hands to the transport is the request as built, unauthorized.  Every other
\* request that reaches the transport is the output of the signer, constructed for
\* the call, under the signing-name override of the metadata, else its endpoint prefix.
C9_SkipSigning ==
  \A c \in DOMAIN calls :
    LET call == calls[c]
        meta == client.apiMetadata
        name == IF meta.signingName # undefined THEN meta.signingName ELSE meta.endpointPrefix
    IN  /\ call.config.skipSigning =>
             /\ ~call.signer.constructed
             /\ call.signingName = undefined
             /\ call.pc # "sign"
             /\ call.fetches > 0 =>
                  /\ call.fetched.authorization = undefined
                  /\ call.fetched.method = call.request.method
                  /\ call.fetched.headers = call.request.headers
                  /\ call.fetched.body = call.request.body
        /\ (~call.config.skipSigning /\ call.pc = "sign") =>
             call.signer.constructed /\ call.signingName = name /\ call.fetches = 0
        /\ (~call.config.skipSigning /\ call.fetches > 0) =>
             /\ call.signer.constructed
             /\ call.signingName = name
             /\ call.fetched = Sign(call.signer, name, call.url, call.request)

\* C9 witness: a skipSigning request went to the transport and came back
C9_Witness ==
  \E c \in DOMAIN calls :
    /\ calls[c].config.skipSigning
    /\ calls[c].fetches = 1
    /\ calls[c].pc = "returned"

\* the transport answered the call
Answered(call) == call.response # NoResponse

\* the status a call declares as expected
Expected(call) ==
  IF call.config.responseCode = << >> THEN 200 ELSE call.config.responseCode[1]

IsServiceError(error) == error.name = "AwsServiceError"

\* C1 as stated: whatever status is declared as expected, a response of status 400 or
\* above is never returned as a success.
C1_ErrorStatusNeverReturned ==
  \A c \in DOMAIN calls :
    (Answered(calls[c]) /\ calls[c].response.status >= 400) => calls[c].pc # "returned"

\* C1 amended: a response of status 400 or above that is not the declared expected
\* status (200 when none is declared) is never returned as a success: the call is
\* reading the error body or has raised an error.
C1_UndeclaredErrorStatusNeverReturned ==
  \A c \in DOMAIN calls :
    LET call == calls[c]
    IN  (Answered(call) /\ call.response.status >= 400 /\ call.response.status # Expected(call)) =>
          /\ call.pc \in {"body", "threw"}
          /\ ~call.warned
          /\ call.pc = "threw" => call.error # NoError

\* C1 witness: a 404 under a declared expectation of 204 was raised as a ServiceError
C1_Witness ==
  \E c \in DOMAIN calls :
    /\ calls[c].response.status = 404
    /\ calls[c].config.responseCode = <<204>>
    /\ calls[c].pc = "threw"
    /\ calls[c].error # NoError

\* C2: a response whose status is the expected one (200 when none is declared) is
\* returned without a warning; a 2xx response of another status is returned and a
\* warning logged; a response of any other status below 400 raises the
\* unexpected-status defect.
C2_SuccessStatuses ==
  \A c \in DOMAIN calls :
    LET call == calls[c]
        status == call.response.status
    IN  Answered(call) =>
          /\ status = Expected(call) =>
               call.pc = "returned" /\ ~call.warned /\ call.error = NoError
          /\ (status # Expected(call) /\ status \in 200..299) =>
               call.pc = "returned" /\ call.warned /\ call.error = NoError
          /\ (status # Expected(call) /\ status \notin 200..299 /\ status < 400) =>
               /\ call.pc = "threw"
               /\ call.error = Error("BUG: Unexpected HTTP response status " \o NumToString(status))

\* C2 witness: a 200 under a declared expectation of 204 was returned with a warning
C2_Witness ==
  \E c \in DOMAIN calls :
    /\ calls[c].response.status = 200
    /\ calls[c].config.responseCode = <<204>>
    /\ calls[c].pc = "returned"
    /\ calls[c].warned

\* handleErrorResponse was called on the call's response
Classified(call) ==
  Answered(call) /\ StatusBranch(call.config, call.response) = "handleErrorResponse"

GenericFailure(response) ==
  Error("Unrecognizable error response of type "
          \o (IF response.contentType = undefined THEN "null" ELSE response.contentType))

\* C3: handleErrorResponse never returns normally, and what it raises is a ServiceError
\* or the generic 'Unrecognizable error response' failure, for every method,
\* content-type and payload.
C3_ClassifierAlwaysRaises ==
  \A c \in DOMAIN calls :
    LET call == calls[c]
    IN  Classified(call) =>
          /\ call.pc \in {"body", "threw"}
          /\ call.pc = "threw" =>
               IsServiceError(call.error) \/ call.error = GenericFailure(call.response)

IsXmlType(contentType) ==
  \/ contentType = undefined
  \/ StartsWith(contentType, "text/xml")
  \/ StartsWith(contentType, "application/xml")

\* the shapes C4 lists as unrecognized
Unrecognized(response) ==
  LET contentType == response.contentType
      body == response.body
      xml == body.xml
      data == body.json
  IN  IF IsXmlType(contentType)
      THEN /\ body.format = "xml"
           /\ \/ xml.name \notin {"ErrorResponse", "Response", "Error"}
                   /\ ~EndsWith(xml.name, "Exception")
              \/ xml.name = "ErrorResponse"
                   /\ \A i \in 1..Len(xml.children) : xml.children[i].name # "Error"
              \/ xml.name = "Response"
                   /\ \A i \in 1..Len(xml.children) :
                        xml.children[i].name = "Errors" => xml.children[i].children = << >>
      ELSE IF StartsWith(contentType, "application/json")
      THEN body.format # "json" \/ data.Error = << >> \/ data.Error[1].Code = undefined
      ELSE IF StartsWith(contentType, "application/x-amz-json-1.")
      THEN \/ body.format # "json"
           \/ data.typeMember = undefined
           \/ data.message = undefined /\ data.Message = undefined
      ELSE TRUE

\* C4: an error response (to a request that has a response body, i.e. not HEAD) of
\* none of the recognized shapes is raised as the generic 'Unrecognizable error
\* response of type {content-type}' defect.
C4_UnrecognizedIsGeneric ==
  \A c \in DOMAIN calls :
    LET call == calls[c]
    IN  (Classified(call) /\ call.pc = "threw" /\ call.request.method # "HEAD"
           /\ Unrecognized(call.response)) =>
          call.error = GenericFailure(call.response)

\* the kinds of body C10 says each protocol client accepts
AcceptedKinds(kind) ==
  CASE kind = "QueryServiceClient" -> {"URLSearchParams"}
    [] kind = "JsonServiceClient" -> {"object", "Uint8Array"}
    [] OTHER -> {"string", "Uint8Array"}

\* C10: a call whose body is of a kind its protocol client does not accept fails with
\* a usage error before the signing fetcher is invoked: no credentials are asked for
\* and nothing is handed to the transport.
C10_UnknownBodyRejected ==
  \A c \in DOMAIN calls :
    LET call == calls[c]
    IN  (call.pc # "idle" /\ call.config.body.kind # "none"
           /\ call.config.body.kind \notin AcceptedKinds(client.kind)) =>
          /\ call.pc = "threw"
          /\ call.error.name = "Error"
          /\ call.getCredentials = 0
          /\ call.fetches = 0

\* the first segment of a path: the text after the leading '/' up to the next '/' or
\* '?', or to the end
FirstSegment(path) ==
  LET rest == Slice(path, 1)
      ends == { n \in 0..Len(rest) :
                  /\ \A i \in 1..n : CharAt(rest, i) \notin {"/", "?"}
                  /\ n = Len(rest) \/ CharAt(rest, n + 1) \in {"/", "?"} }
  IN  Prefix(rest, Min(ends))

\* the signing fetcher was invoked for the call
Fetching(call) == call.getCredentials + call.fetches > 0

\* C6: the signing fetcher rewrites exactly the S3 calls without host prefix under a
\* factory without fixed endpoint whose first path segment is non-empty and has no
\* dot: the host prefix becomes '{bucket}.' and the path is what follows the bucket,
\* starting with '/'.  Every other call keeps its host prefix and path.
C6_BucketRewrite ==
  \A c \in DOMAIN calls :
    LET call == calls[c]
        path == CallPath(call.config)
        bucket == FirstSegment(path)
        rest == Slice(path, 1 + Len(bucket))
        applies == /\ client.apiMetadata.serviceId = "S3"
                   /\ call.config.hostPrefix = undefined
                   /\ factory.opts.fixedEndpoint = undefined
                   /\ bucket # ""
                   /\ ~Includes(bucket, ".")
    IN  Fetching(call) =>
          IF applies
          THEN /\ call.opts.hostPrefix = bucket \o "."
               /\ call.opts.urlPath = IF StartsWith(rest, "/") THEN rest ELSE "/" \o rest
          ELSE /\ call.opts.hostPrefix = call.config.hostPrefix
               /\ call.opts.urlPath = path

\* C6 witness: '/my-bucket/key' on S3 was sent to the bucket's host with path '/key'
C6_Witness ==
  \E c \in DOMAIN calls :
    /\ client.apiMetadata.serviceId = "S3"
    /\ calls[c].config.requestUri = "/my-bucket/key"
    /\ calls[c].config.query = undefined
    /\ calls[c].opts.hostPrefix = "my-bucket."
    /\ calls[c].opts.urlPath = "/key"
    /\ calls[c].fetched.url = "https://my-bucket.s3.dualstack.us-west-2.amazonaws.com/key"

\* the caller's form fields as they are to appear after Action and Version
RECURSIVE FollowingFields(_)
FollowingFields(entries) ==
  IF entries = << >> THEN ""
  ELSE "&" \o FormEncode(Head(entries)[1]) \o "=" \o FormEncode(Head(entries)[2])
         \o FollowingFields(Tail(entries))

\* C11: a Query/EC2 call with a form-parameter body is POSTed with a body that begins
\* with Action (the call's action) and Version (the service API version), followed
\* by every caller field in its original order, fields named Action or Version
\* included; with any other method the call fails with the usage error and the
\* signing fetcher is not invoked.
C11_QueryFormBody ==
  \A c \in DOMAIN calls :
    LET call == calls[c]
        config == call.config
    IN  (call.pc # "idle" /\ client.kind = "QueryServiceClient"
           /\ config.body.kind = "URLSearchParams") =>
          IF config.method \in {undefined, "POST"}
          THEN /\ call.getCredentials + call.fetches > 0
               /\ call.request.method = "POST"
               /\ call.request.body.present
               /\ call.request.body.text
                    = "Action=" \o FormEncode(config.action)
                        \o "&Version=" \o FormEncode(client.apiMetadata.apiVersion)
                        \o FollowingFields(config.body.entries)
               /\ call.fetches > 0 => call.fetched.body = call.request.body
          ELSE /\ call.pc = "threw"
               /\ call.error = Error("query is supposed to be POSTed")
               /\ call.getCredentials = 0
               /\ call.fetches = 0

\* C11 witness: caller fields named Version and Action were sent after the injected ones
C11_Witness ==
  \E c \in DOMAIN calls :
    /\ client.kind = "QueryServiceClient"
    /\ calls[c].fetches = 1
    /\ calls[c].fetched.body.text
         = "Action=DoThing&Version=2012-10-17&Version=1&Action=Other&Name=a+b%26c%3Dd"

\* C12: whatever the interleaving of concurrent calls on one factory, the counting
\* provider never sees more than one getCredentials() invocation outstanding.
C12_SingleFlight == provider.outstanding <= 1

\* C18: the AbortSignal of a call is the signal of the fetch made for that call, on
\* the signed and on the skipSigning path, and a fetch is only ever aborted by the
\* signal of its own call.
C18_AbortCascades ==
  \A c \in DOMAIN calls :
    LET call == calls[c]
    IN  /\ call.fetches > 0 => call.fetched.signal = call.config.abortSignal
        /\ call.error.name = "AbortError" => call.config.abortSignal \in aborted

\* C13 as stated: a call uses the provider at most once and the transport at most
\* once, and a failure of the provider always reaches the caller as that failure.
C13_NothingSuppressed ==
  \A c \in DOMAIN calls :
    /\ calls[c].getCredentials <= 1
    /\ calls[c].fetches <= 1
    /\ calls[c].rejected => calls[c].pc = "threw" /\ calls[c].error = CredentialsError

\* a call that has returned or thrown stays as it is
Settled(c) == calls[c].pc \in {"returned", "threw"} => calls'[c] = calls[c]

\* C13 amended: a call uses the provider at most once and the transport at most once;
\* on the signed path a failure of the provider reaches the caller as that failure,
\* on the skipSigning path it is swallowed (never reported as the provider's error);
\* an error response is never returned; and a call that has thrown or returned is
\* never attempted again nor turned into the other outcome.
C13_NoRetryNoSuppression ==
  /\ [](\A c \in DOMAIN calls :
          LET call == calls[c]
          IN  /\ call.getCredentials <= 1
              /\ call.fetches <= 1
              /\ (call.rejected /\ ~call.config.skipSigning) =>
                   call.pc = "threw" /\ call.error = CredentialsError /\ call.fetches = 0
              /\ (call.rejected /\ call.config.skipSigning) => call.error # CredentialsError
              /\ (Answered(call) /\ call.response.status >= 400
                    /\ call.response.status # Expected(call)) => call.pc \in {"body", "threw"})
  /\ [][\A c \in DOMAIN calls : Settled(c)]_vars

\* C13 witness: the provider rejected a signed call, which threw that error without
\* reaching the transport
C13_Witness ==
  \E c \in DOMAIN calls :
    /\ ~calls[c].config.skipSigning
    /\ calls[c].rejected
    /\ calls[c].pc = "threw"
    /\ calls[c].error = CredentialsError
    /\ calls[c].getCredentials = 1
    /\ calls[c].fetches = 0

\* C14: a factory constructed with neither credentials nor a provider throws the
\* configuration error and is never used; a factory constructed with fixed
\* credentials (with or without a provider beside them) never sees a lookup fail,
\* and every signed call, skipSigning region hint and ensureCredentialsAvailable
\* observes exactly the credentials given.
C14_CredentialsSource ==
  LET opts == factory.opts
  IN  /\ (factory.state # "none" /\ opts.credentials = << >> /\ opts.credentialProvider = << >>) =>
           /\ factory.state = "threw"
           /\ StartsWith(factory.error.message, "No credentials or credential source provided")
           /\ client.state = "none"
           /\ provider.invocations = 0
      /\ (factory.state = "built" /\ opts.credentials # << >>) =>
           /\ \A c \in DOMAIN calls :
                LET call == calls[c]
                IN  (call.getCredentials = 1 /\ call.pc # "getCredentials") =>
                      /\ ~call.rejected
                      /\ call.error # CredentialsError
                      /\ ~call.config.skipSigning => call.credentials = opts.credentials[1]
                      /\ (call.config.skipSigning /\ call.fetches > 0) =>
                           call.region = opts.credentials[1].region
           /\ ensure.pc \in {"returned", "threw"} =>
                /\ ensure.credentials = opts.credentials[1]
                /\ ensure.error # CredentialsError
                /\ ensure.pc = "returned" <=> opts.credentials[1].awsAccessKeyId # ""

\* C14 witness: fixed credentials beside a provider that can fail: a signed call and
\* ensureCredentialsAvailable both got the fixed value
C14_Witness ==
  \E c \in DOMAIN calls :
    /\ factory.opts.credentials = <<Credentials("eu-west-1")>>
    /\ factory.opts.credentialProvider # << >>
    /\ ~calls[c].config.skipSigning
    /\ calls[c].credentials = Credentials("eu-west-1")
    /\ calls[c].pc = "returned"
    /\ ensure.pc = "returned"
    /\ ensure.credentials = Credentials("eu-west-1")

\* the protocol client C15 states for a protocol, or undefined
ClientFor(protocol) ==
  CASE protocol \in {"query", "ec2"} -> "QueryServiceClient"
    [] protocol \in {"json", "rest-json"} -> "JsonServiceClient"
    [] protocol = "rest-xml" -> "XmlServiceClient"
    [] OTHER -> undefined

\* C15: a client is built only for metadata that does not ask for signature version
\* v2 and names a recognized protocol, and is then the client of that protocol;
\* otherwise buildServiceClient throws the signature-version error or the
\* unsupported-protocol error, with no credentials lookup and no call made.
C15_BuildServiceClient ==
  /\ client.state = "built" =>
       /\ client.apiMetadata.signatureVersion # "v2"
       /\ ClientFor(client.apiMetadata.protocol) # undefined
       /\ client.kind = ClientFor(client.apiMetadata.protocol)
  /\ client.state = "threw" =>
       /\ \/ client.error = Error("TODO: signature version v2")
          \/ /\ StartsWith(client.error.message, "TODO: protocol ")
             /\ ClientFor(Slice(client.error.message, Len("TODO: protocol "))) = undefined
       /\ provider.invocations = 0
       /\ \A c \in DOMAIN calls : calls[c].pc = "idle"

\* C15 witness: a build for metadata of signature version v2 threw
C15_Witness ==
  /\ client.state = "threw"
  /\ client.error = Error("TODO: signature version v2")
  /\ provider.invocations = 0

\* the content of the first child element of that name, or undefined
Field(node, name) ==
  LET at == { i \in 1..Len(node.children) : node.children[i].name = name }
  IN  IF at = {} THEN undefined
      ELSE node.children[CHOOSE i \in at : \A j \in at : i <= j].content

HasFields(node, names) ==
  \A name \in names : \E i \in 1..Len(node.children) : node.children[i].name = name

\* the child elements of that name, in document order
Elements(node, name) ==
  SelectSeq(node.children, LAMBDA child : child.name = name)

\* the error C16 states for an XML error document, as << >> when it states none:
\* Code, Message and request id by the root tag
XmlErrorStated(response, xml) ==
  LET nested == Elements(xml, "Error")
      lists == Elements(xml, "Errors")
      listed == IF lists = << >> THEN << >> ELSE Elements(lists[1], "Error")
  IN  CASE xml.name = "ErrorResponse" /\ nested # << >>
             /\ HasFields(nested[1], {"Code", "Message", "Type"}) ->
             <<[Code |-> Field(nested[1], "Code"), Message |-> Field(nested[1], "Message"),
                Type |-> <<Field(nested[1], "Type")>>, RequestId |-> Field(xml, "RequestId")]>>
        [] xml.name = "Response" /\ listed # << >>
             /\ \A i \in 1..Len(listed) : HasFields(listed[i], {"Code", "Message"}) ->
             <<[Code |-> Field(listed[1], "Code"), Message |-> Field(listed[1], "Message"),
                Type |-> <<Field(listed[1], "Type")>>, RequestId |-> Field(xml, "RequestID")]>>
        [] xml.name = "Error" /\ HasFields(xml, {"Code", "Message"}) ->
             <<[Code |-> Field(xml, "Code"), Message |-> Field(xml, "Message"),
                Type |-> << >>, RequestId |-> Field(xml, "RequestId")]>>
        [] xml.name \notin {"ErrorResponse", "Response", "Error"}
             /\ EndsWith(xml.name, "Exception") /\ HasFields(xml, {"Message"}) ->
             <<[Code |-> xml.name, Message |-> Field(xml, "Message"),
                Type |-> << >>, RequestId |-> response.requestId]>>
        [] OTHER -> << >>

C17_HeadFromStatusLine ==
  \A c \in DOMAIN calls :
    LET call == calls[c]
        response == call.response
    IN  (Classified(call) /\ call.request.method = "HEAD") =>
          /\ call.pc = "threw"
          /\ IsServiceError(call.error)
          /\ call.error.Code = "Http" \o NumToString(response.status)
          /\ call.error.message = "HTTP error status: " \o response.statusText
          /\ call.error.RequestId = response.requestId

\* C17 witness: a HEAD answered 404 with a JSON error body was raised as Http404
C17_Witness ==
  \E c \in DOMAIN calls :
    /\ Classified(calls[c])
    /\ calls[c].request.method = "HEAD"
    /\ calls[c].response.status = 404
    /\ calls[c].response.contentType = "application/json"
    /\ calls[c].response.body.format = "json"
    /\ calls[c].pc = "threw"
    /\ calls[c].error.Code = "Http404"

\* C19: a skipSigning call asks the provider only when neither the call nor the
\* factory has a region; and when the provider then rejects, the call does not fail
\* with the provider's error: with a fixed endpoint or a global endpoint it goes on
\* to the transport, and otherwise it throws the missing-region error without
\* reaching the transport.
C19_RegionHintOnly ==
  \A c \in DOMAIN calls :
    LET call == calls[c]
    IN  (call.pc # "idle" /\ call.config.skipSigning) =>
          /\ (call.config.region # undefined \/ factory.region # undefined) =>
               call.getCredentials = 0
          /\ call.getCredentials = 1 =>
               call.config.region = undefined /\ factory.region = undefined
          /\ call.rejected =>
               /\ call.error # CredentialsError
               /\ IF factory.fixedEndpoint # undefined \/ IsGlobal(client.apiMetadata)
                  THEN call.fetches = 1 /\ call.pc \in {"fetch", "body", "returned", "threw"}
                         /\ call.error # throwMissingRegion
                  ELSE call.fetches = 0 /\ call.pc = "threw" /\ call.error = throwMissingRegion

\* C19 witness: the provider rejected the region lookup of a skipSigning call to a
\* global service, and the call went on to the transport
C19_Witness ==
  \E c \in DOMAIN calls :
    /\ calls[c].config.skipSigning
    /\ calls[c].rejected
    /\ IsGlobal(client.apiMetadata)
    /\ factory.fixedEndpoint = undefined
    /\ calls[c].getCredentials = 1
    /\ calls[c].fetches = 1

=============================================================================
